---------------------------- MODULE Spec2Model ----------------------------
(***************************************************************************)
(* logrus_firehose: a logrus hook that relays log entries to an AWS        *)
(* Firehose delivery stream.                                               *)
(*                                                                         *)
(* src/hook.go holds three historical variants of the hook, one after the  *)
(* other, each a complete `package logrus_firehose`:                       *)
(*   "v1"  lines   1-152  New/NewWithAWSConfig, formatter, streamName      *)
(*   "v2"  lines 154-324  defaultStreamName, stream_name override,         *)
(*                        ignoreFields, filters, json.Marshal              *)
(*   "v3"  lines 326-474  NewFirehoseHook with options, sendQueue field    *)
(* A program is built from exactly one of them: `variant` is fixed in the  *)
(* initial state.                                                          *)
(***************************************************************************)
EXTENDS Integers, Sequences, FiniteSets, TLC

(***************************************************************************)
(* Bounds of the model.                                                    *)
(***************************************************************************)
MaxFires == 2
\* calls of Fire in one behaviour

MaxQueueCap == 1
\* largest capacity given to the sendQueue channel of a hook literal

MaxOpts == 2
\* options passed to one NewFirehoseHook call

\* Two hook instances: the one an operation is applied to, and another one
\* it must leave alone.
Hooks == {1, 2}
Calls == 1..MaxFires
Variants == {"v1", "v2", "v3"}

VARIABLES
  variant,      \* which variant of hook.go the program is built from
  hook,         \* hook[h]: the fields of FirehoseHook instance h
  call,         \* call[c]: the c-th call of Fire and the send it leads to
  ctor,         \* ctor[h]: how h was constructed, and with which name
  wantLevels,   \* wantLevels[h]: the level set last configured on h
  wantNewline   \* wantNewline[h]: the append-newline setting last configured on h

vars == <<variant, hook, call, ctor, wantLevels, wantNewline>>

(***************************************************************************)
(* Values.                                                                 *)
(***************************************************************************)
\* A []logrus.Level: Go tells the nil slice from a slice with elements.
NilLevels == [isNil |-> TRUE, elems |-> <<>>]
LevelSlice(s) == [isNil |-> FALSE, elems |-> s]

DefaultLevels == LevelSlice(<<"panic", "fatal", "error", "warn", "info">>)

\* The level sets of TestLevels / TestSetLevels, and the default.
LevelSets ==
  { NilLevels,
    LevelSlice(<<"warn">>),
    LevelSlice(<<"warn", "debug">>),
    DefaultLevels }

\* Destination names handed to constructors and struct literals.
Names == {"", "default_stream"}

\* An interface{} value of entry.Data, by dynamic type.
Absent == [kind |-> "absent", str |-> ""]
NilValue == [kind |-> "nil", str |-> ""]
IntValue == [kind |-> "int", str |-> "99999"]
StringValue(s) == [kind |-> "string", str |-> s]
ErrorValue == [kind |-> "error", str |-> "boom"]
ChanValue == [kind |-> "chan", str |-> ""]

NoErr == "nil"
ErrRemote == "ErrRemote"

\* The []byte nil that getData returns when formatting fails.
NilBytes == [isNil |-> TRUE, bytes |-> <<>>]
Bytes(b) == [isNil |-> FALSE, bytes |-> b]

(***************************************************************************)
(* The hook struct.                                                        *)
(***************************************************************************)
\* A slot no hook has been constructed in.
NoHook ==
  [ alive |-> FALSE, client |-> FALSE, formatter |-> "nil",
    streamName |-> "", defaultStreamName |-> "",
    levels |-> NilLevels, addNewline |-> FALSE, async |-> FALSE,
    blockingMode |-> FALSE, sendQueueCap |-> 0, sendQueue |-> <<>>,
    ignoreFields |-> {}, filters |-> {} ]

\* FirehoseHook{}: Go's zero value of the struct.
ZeroHook == [NoHook EXCEPT !.alive = TRUE]

Alive(h) == hook[h].alive


(***************************************************************************)
(* Construction.                                                           *)
(***************************************************************************)
\* The struct literal New returns (session.NewSession succeeded).
NewHook(v, name) ==
  IF v = "v1"
  THEN [ZeroHook EXCEPT !.client = TRUE, !.streamName = name,
                        !.levels = DefaultLevels, !.formatter = "json"]
  ELSE [ZeroHook EXCEPT !.client = TRUE, !.defaultStreamName = name,
                        !.levels = DefaultLevels]

\* The struct literal NewWithAWSConfig returns: in v2 it has no
\* defaultStreamName field, so the name argument is not stored.
NewWithAWSConfigHook(v, name) ==
  IF v = "v1"
  THEN [ZeroHook EXCEPT !.client = TRUE, !.streamName = name,
                        !.levels = DefaultLevels, !.formatter = "json"]
  ELSE [ZeroHook EXCEPT !.client = TRUE, !.levels = DefaultLevels]

\* The struct literal NewFirehoseHook starts from, before the options.
NewFirehoseHookBase(name) ==
  [ZeroHook EXCEPT !.client = TRUE, !.streamName = name,
                   !.levels = DefaultLevels, !.formatter = "json"]

\* Options.  WithAddNewLine is a method: its closure captures the receiver
\* recv (0 stands for a receiver that is no hook the program keeps).
WithLevels(levels) == [opt |-> "WithLevels", levels |-> levels, recv |-> 0]
WithAsync == [opt |-> "WithAsync", levels |-> NilLevels, recv |-> 0]
WithAddNewLine(recv) == [opt |-> "WithAddNewLine", levels |-> NilLevels, recv |-> recv]

\* opt(hk): the option's closure run on the hook under construction, which
\* sits in slot target of hs.  The closures of WithLevels and WithAsync
\* write their argument `hook`; the closure of WithAddNewLine writes h, the
\* receiver of the method that built it.
ApplyOption(hs, target, o) ==
  CASE o.opt = "WithLevels" -> [hs EXCEPT ![target].levels = o.levels]
    [] o.opt = "WithAsync" -> [hs EXCEPT ![target].async = TRUE]
    [] o.opt = "WithAddNewLine" ->
         IF o.recv = 0 THEN hs ELSE [hs EXCEPT ![o.recv].addNewline = TRUE]

\* for _, opt := range opts { opt(hk) }
RECURSIVE ApplyOptions(_, _, _)
ApplyOptions(hs, target, opts) ==
  IF opts = <<>> THEN hs
  ELSE ApplyOptions(ApplyOption(hs, target, Head(opts)), target, Tail(opts))

\* What the options ask of the hook they are passed to: the level set and
\* the append-newline setting configured on it.
RECURSIVE OptLevels(_, _)
OptLevels(cur, opts) ==
  IF opts = <<>> THEN cur
  ELSE OptLevels(IF Head(opts).opt = "WithLevels" THEN Head(opts).levels ELSE cur,
                 Tail(opts))

OptNewline(opts) == \E i \in DOMAIN opts : opts[i].opt = "WithAddNewLine"

Constructed(by, name) == [by |-> by, name |-> name]

New(h, name) ==
  /\ variant \in {"v1", "v2"}
  /\ ~Alive(h)
  /\ hook' = [hook EXCEPT ![h] = NewHook(variant, name)]
  /\ ctor' = [ctor EXCEPT ![h] = Constructed("New", name)]
  /\ wantLevels' = [wantLevels EXCEPT ![h] = DefaultLevels]
  /\ wantNewline' = [wantNewline EXCEPT ![h] = FALSE]
  /\ UNCHANGED <<variant, call>>

NewWithAWSConfig(h, name) ==
  /\ variant \in {"v1", "v2"}
  /\ ~Alive(h)
  /\ hook' = [hook EXCEPT ![h] = NewWithAWSConfigHook(variant, name)]
  /\ ctor' = [ctor EXCEPT ![h] = Constructed("NewWithAWSConfig", name)]
  /\ wantLevels' = [wantLevels EXCEPT ![h] = DefaultLevels]
  /\ wantNewline' = [wantNewline EXCEPT ![h] = FALSE]
  /\ UNCHANGED <<variant, call>>

NewFirehoseHook(h, name, opts) ==
  /\ variant = "v3"
  /\ ~Alive(h)
  /\ \A i \in DOMAIN opts :
       opts[i].recv # 0 => (opts[i].recv # h /\ Alive(opts[i].recv))
  /\ hook' = ApplyOptions([hook EXCEPT ![h] = NewFirehoseHookBase(name)], h, opts)
  /\ ctor' = [ctor EXCEPT ![h] = Constructed("NewFirehoseHook", name)]
  /\ wantLevels' = [wantLevels EXCEPT ![h] = OptLevels(DefaultLevels, opts)]
  /\ wantNewline' = [wantNewline EXCEPT ![h] = OptNewline(opts)]
  /\ UNCHANGED <<variant, call>>

\* hook := FirehoseHook{}, as the tests build it.
ZeroValue(h) ==
  /\ ~Alive(h)
  /\ hook' = [hook EXCEPT ![h] = ZeroHook]
  /\ ctor' = [ctor EXCEPT ![h] = Constructed("literal", "")]
  /\ wantLevels' = [wantLevels EXCEPT ![h] = NilLevels]
  /\ wantNewline' = [wantNewline EXCEPT ![h] = FALSE]
  /\ UNCHANGED <<variant, call>>

(***************************************************************************)
(* Levels.                                                                 *)
(***************************************************************************)
\* func (h *FirehoseHook) Levels() []logrus.Level
Levels(h) == hook[h].levels

\* SetLevels as it would be with the level set kept in one place for all
\* hooks (a package-level variable) instead of in the hook's field.
SetLevels_Shared(h, levels) ==
  /\ variant \in {"v1", "v2"}
  /\ Alive(h)
  /\ hook' = [g \in Hooks |->
                IF Alive(g) THEN [hook[g] EXCEPT !.levels = levels] ELSE hook[g]]
  /\ wantLevels' = [wantLevels EXCEPT ![h] = levels]
  /\ UNCHANGED <<variant, call, ctor, wantNewline>>

\* func (h *FirehoseHook) SetLevels(levels []logrus.Level); v3 has none.
SetLevels(h, levels) ==
  /\ variant \in {"v1", "v2"}
  /\ Alive(h)
  /\ hook' = [hook EXCEPT ![h].levels = levels]
  /\ wantLevels' = [wantLevels EXCEPT ![h] = levels]
  /\ UNCHANGED <<variant, call, ctor, wantNewline>>

\* hook.levels = tt.levels, the assignment TestLevels makes.
AssignLevels(h, levels) ==
  /\ Alive(h)
  /\ ctor[h].by = "literal"
  /\ hook' = [hook EXCEPT ![h].levels = levels]
  /\ wantLevels' = [wantLevels EXCEPT ![h] = levels]
  /\ UNCHANGED <<variant, call, ctor, wantNewline>>

(***************************************************************************)
(* Entries and formatting.                                                 *)
(***************************************************************************)
\* The field names of entry.Data, in the order json.Marshal writes a map.
SortedKeys == <<"detail", "stream_name">>
Keys == {SortedKeys[i] : i \in DOMAIN SortedKeys}

\* The values TestGetStreamName gives the stream_name field (Absent: the
\* field is not set), and the values of an ordinary field: a string, an
\* error, and a channel, which encoding/json cannot serialise.
StreamNameValues ==
  {Absent, NilValue, IntValue, StringValue(""), StringValue("entry_stream")}
DetailValues == {StringValue("x"), ErrorValue, ChanValue}

Entries ==
  { [Data |-> [k \in Keys |-> IF k = "stream_name" THEN sn ELSE d]] :
      sn \in StreamNameValues, d \in DetailValues }

NoEntry == [Data |-> [k \in Keys |-> Absent]]

\* The one filter function the model registers: it masks the value.
MaskFilter(v) == StringValue("***")

\* func formatData(value interface{}) (formatted interface{})
formatData(value) ==
  IF value.kind = "error" THEN StringValue(value.str) ELSE value

\* The encoding of one value; a channel has none.
Serialisable(v) == v.kind # "chan"

EncodeValue(v) ==
  CASE v.kind = "string" -> <<"\"", v.str, "\"">>
    [] v.kind = "int" -> <<v.str>>
    [] v.kind = "nil" -> <<"null">>
    [] v.kind = "error" -> <<"{", "}">>
    [] OTHER -> <<>>

RECURSIVE EncodeFields(_, _, _)
EncodeFields(data, keys, first) ==
  IF keys = <<>> THEN <<>>
  ELSE LET k == Head(keys)
       IN  IF data[k].kind = "absent"
           THEN EncodeFields(data, Tail(keys), first)
           ELSE (IF first THEN <<>> ELSE <<",">>)
                  \o <<"\"", k, "\"", ":">> \o EncodeValue(data[k])
                  \o EncodeFields(data, Tail(keys), FALSE)

\* json.Marshal of a map: the bytes, or nil with an error.
Marshal(data) ==
  IF \E k \in Keys : data[k].kind # "absent" /\ ~Serialisable(data[k])
  THEN NilBytes
  ELSE Bytes(<<"{">> \o EncodeFields(data, SortedKeys, TRUE) \o <<"}">>)

\* v2, the loop of getData: the fields that are marshalled.
FilteredData(h, entry) ==
  [k \in Keys |->
     IF entry.Data[k].kind = "absent" \/ k \in hook[h].ignoreFields THEN Absent
     ELSE IF k \in hook[h].filters THEN MaskFilter(entry.Data[k])
     ELSE formatData(entry.Data[k])]

\* v1, v3: h.formatter.Format(entry) with logrus' JSONFormatter, which
\* writes errors as their message and ends the line; the time, level and
\* message keys it adds are the same for every entry and left out.
FormatJSON(entry) ==
  LET m == Marshal([k \in Keys |-> formatData(entry.Data[k])])
  IN  IF m.isNil THEN NilBytes ELSE Bytes(m.bytes \o <<"\n">>)

\* The bytes of the entry before the newline setting is applied, or NilBytes
\* when formatting returned an error.
Formatted(h, entry) ==
  IF variant = "v2" THEN Marshal(FilteredData(h, entry)) ELSE FormatJSON(entry)

\* getData as it would be with the newline appended before the error check.
getData_NewlineFirst(h, entry) ==
  LET f == Formatted(h, entry)
  IN  IF hook[h].addNewline THEN Bytes(f.bytes \o <<"\n">>)
      ELSE IF f.isNil THEN NilBytes
      ELSE f

\* func (h *FirehoseHook) getData(entry *logrus.Entry) []byte
getData(h, entry) ==
  LET f == Formatted(h, entry)
  IN  IF f.isNil THEN NilBytes
      ELSE IF hook[h].addNewline THEN Bytes(f.bytes \o <<"\n">>)
      ELSE f

\* getStreamName as it would be if an empty stream_name counted as unset.
getStreamName_SkipEmpty(h, entry) ==
  IF entry.Data["stream_name"].kind = "string" /\ entry.Data["stream_name"].str # ""
  THEN entry.Data["stream_name"].str
  ELSE hook[h].defaultStreamName

\* func (h *FirehoseHook) getStreamName(entry *logrus.Entry) string  (v2)
getStreamName(h, entry) ==
  IF entry.Data["stream_name"].kind = "string"
  THEN entry.Data["stream_name"].str
  ELSE hook[h].defaultStreamName

\* The firehose.PutRecordInput that fire builds.
PutRecordInput(h, entry) ==
  [ DeliveryStreamName |->
      IF variant = "v2" THEN getStreamName(h, entry) ELSE hook[h].streamName,
    Data |-> getData(h, entry) ]

(***************************************************************************)
(* Configuration after construction.                                       *)
(***************************************************************************)
\* A struct literal written inside the package, as hook_test.go writes
\* them, with a client (and a formatter where the struct has one): the only
\* way blockingMode and sendQueue are ever set, since no constructor, option
\* or method of hook.go assigns them.
HookLiteral(h, name, async, blockingMode, cap) ==
  /\ ~Alive(h)
  /\ blockingMode => variant \in {"v1", "v3"}
  /\ cap > 0 => variant = "v3"
  /\ hook' = [hook EXCEPT ![h] =
       [ZeroHook EXCEPT
          !.client = TRUE,
          !.formatter = IF variant = "v2" THEN "nil" ELSE "json",
          !.streamName = IF variant = "v2" THEN "" ELSE name,
          !.defaultStreamName = IF variant = "v2" THEN name ELSE "",
          !.async = async,
          !.blockingMode = blockingMode,
          !.sendQueueCap = cap]]
  /\ ctor' = [ctor EXCEPT ![h] = Constructed("literal", name)]
  /\ wantLevels' = [wantLevels EXCEPT ![h] = NilLevels]
  /\ wantNewline' = [wantNewline EXCEPT ![h] = FALSE]
  /\ UNCHANGED <<variant, call>>

\* func (h *FirehoseHook) Async(); v3 has none.
Async(h) ==
  /\ variant \in {"v1", "v2"}
  /\ Alive(h)
  /\ hook' = [hook EXCEPT ![h].async = TRUE]
  /\ UNCHANGED <<variant, call, ctor, wantLevels, wantNewline>>

\* func (h *FirehoseHook) AddNewLine(b bool); v3 has none.
AddNewLine(h, b) ==
  /\ variant \in {"v1", "v2"}
  /\ Alive(h)
  /\ hook' = [hook EXCEPT ![h].addNewline = b]
  /\ wantNewline' = [wantNewline EXCEPT ![h] = b]
  /\ UNCHANGED <<variant, call, ctor, wantLevels>>

\* func (h *FirehoseHook) AddIgnore(name string); v2 only.  The maps are
\* made by New and NewWithAWSConfig: on a literal the write would panic.
AddIgnore(h, name) ==
  /\ variant = "v2"
  /\ Alive(h)
  /\ ctor[h].by # "literal"
  /\ hook' = [hook EXCEPT ![h].ignoreFields = @ \cup {name}]
  /\ UNCHANGED <<variant, call, ctor, wantLevels, wantNewline>>

\* func (h *FirehoseHook) AddFilter(name string, fn ...); v2 only.
AddFilter(h, name) ==
  /\ variant = "v2"
  /\ Alive(h)
  /\ ctor[h].by # "literal"
  /\ hook' = [hook EXCEPT ![h].filters = @ \cup {name}]
  /\ UNCHANGED <<variant, call, ctor, wantLevels, wantNewline>>

(***************************************************************************)
(* Fire.                                                                   *)
(***************************************************************************)
\* call[c].pc: "idle"      Fire has not been called
\*             "spawned"   `go h.fire(entry)` started a goroutine that has
\*                         not yet called PutRecord
\*             "inflight"  PutRecord was called and has not returned
\*             "done"      PutRecord returned resp
\* returned/ret: whether Fire returned to its caller, and what.
\* puts: how often PutRecord was called for the entry; input: with what;
\* formatted/nl: what Formatted and the configured newline setting were
\* when it was.
NoInput == [DeliveryStreamName |-> "", Data |-> NilBytes]

NoCall ==
  [ pc |-> "idle", hook |-> 0, entry |-> NoEntry, async |-> FALSE,
    returned |-> FALSE, ret |-> NoErr, resp |-> NoErr, puts |-> 0,
    input |-> NoInput, formatted |-> NilBytes, nl |-> FALSE ]

\* A hook Fire can run on without a nil dereference.
Usable(h) ==
  /\ Alive(h)
  /\ hook[h].client
  /\ variant # "v2" => hook[h].formatter # "nil"

\* h.client.PutRecord(in) is called for call c: the request leaves.
Put(c, h, entry) ==
  [ call[c] EXCEPT
      !.pc = "inflight",
      !.puts = @ + 1,
      !.input = PutRecordInput(h, entry),
      !.formatted = Formatted(h, entry),
      !.nl = wantNewline[h] ]

\* Fire as it would be without the async branch: every call sends inline.
Fire_Inline(c, h, entry) ==
  /\ call[c].pc = "idle"
  /\ \A d \in Calls : d < c => call[d].pc # "idle"
  /\ Usable(h)
  /\ call' = [call EXCEPT ![c] =
       [ Put(c, h, entry) EXCEPT
           !.hook = h, !.entry = entry, !.async = hook[h].async ]]
  /\ UNCHANGED <<variant, hook, ctor, wantLevels, wantNewline>>

\* Fire as it would be if the async branch sent inline and in a goroutine.
Fire_Twice(c, h, entry) ==
  /\ call[c].pc = "idle"
  /\ \A d \in Calls : d < c => call[d].pc # "idle"
  /\ Usable(h)
  /\ call' = [call EXCEPT ![c] =
       IF ~hook[h].async
       THEN [ Put(c, h, entry) EXCEPT
                !.hook = h, !.entry = entry, !.async = FALSE ]
       ELSE [ Put(c, h, entry) EXCEPT
                !.pc = "spawned", !.hook = h, !.entry = entry,
                !.async = TRUE, !.returned = TRUE, !.ret = NoErr ]]
  /\ UNCHANGED <<variant, hook, ctor, wantLevels, wantNewline>>

\* func (h *FirehoseHook) Fire(entry *logrus.Entry) error, up to the point
\* where it returns (async) or waits in PutRecord (sync).
Fire(c, h, entry) ==
  /\ call[c].pc = "idle"
  /\ \A d \in Calls : d < c => call[d].pc # "idle"
  /\ Usable(h)
  /\ call' = [call EXCEPT ![c] =
       IF ~hook[h].async
       THEN [ Put(c, h, entry) EXCEPT
                !.hook = h, !.entry = entry, !.async = FALSE ]
       ELSE [ call[c] EXCEPT
                !.pc = "spawned", !.hook = h, !.entry = entry,
                !.async = TRUE, !.returned = TRUE, !.ret = NoErr ]]
  /\ UNCHANGED <<variant, hook, ctor, wantLevels, wantNewline>>

\* The goroutine of `go h.fire(entry)` runs fire up to its PutRecord call.
GoFire(c) ==
  /\ call[c].pc = "spawned"
  /\ call' = [call EXCEPT ![c] = Put(c, call[c].hook, call[c].entry)]
  /\ UNCHANGED <<variant, hook, ctor, wantLevels, wantNewline>>

\* The synchronous return as it would be if Fire dropped fire's error.
SyncResult_Dropped(err) == NoErr

\* `return h.fire(entry)`: what a synchronous Fire hands its caller.
SyncResult(err) == err

\* PutRecord returns err; fire returns it, and a synchronous Fire with it.
PutRecordReturn(c, err) ==
  /\ call[c].pc = "inflight"
  /\ call' = [call EXCEPT ![c] =
       IF call[c].async
       THEN [ @ EXCEPT !.pc = "done", !.resp = err ]
       ELSE [ @ EXCEPT !.pc = "done", !.resp = err,
                       !.returned = TRUE, !.ret = SyncResult(err) ]]
  /\ UNCHANGED <<variant, hook, ctor, wantLevels, wantNewline>>

(***************************************************************************)
(* Specifications.                                                         *)
(***************************************************************************)
Init ==
  /\ variant \in Variants
  /\ hook = [h \in Hooks |-> NoHook]
  /\ call = [c \in Calls |-> NoCall]
  /\ ctor = [h \in Hooks |-> Constructed("none", "")]
  /\ wantLevels = [h \in Hooks |-> NilLevels]
  /\ wantNewline = [h \in Hooks |-> FALSE]

SeqsUpTo(S, n) == UNION {[1..k -> S] : k \in 0..n}

Responses == {NoErr, ErrRemote}

\* The entry a program logs when the payload is not what is looked at.
PlainEntry ==
  [Data |-> [k \in Keys |-> IF k = "detail" THEN StringValue("x") ELSE Absent]]

\* Spec: the send path.  Hooks of every construction, synchronous and
\* asynchronous, with and without blockingMode and a sendQueue; up to
\* MaxFires calls of Fire from concurrent goroutines, a remote service that
\* answers each PutRecord with success or an error at any later time.
Next ==
  \/ \E h \in Hooks : New(h, "default_stream")
  \/ \E h \in Hooks : NewWithAWSConfig(h, "default_stream")
  \/ \E h \in Hooks, opts \in SeqsUpTo({WithAsync}, MaxOpts) :
       NewFirehoseHook(h, "default_stream", opts)
  \/ \E h \in Hooks, async \in BOOLEAN, blockingMode \in BOOLEAN,
        cap \in 0..MaxQueueCap :
       HookLiteral(h, "default_stream", async, blockingMode, cap)
  \/ \E h \in Hooks : Async(h)
  \/ \E c \in Calls, h \in Hooks : Fire(c, h, PlainEntry)
  \/ \E c \in Calls : GoFire(c)
  \/ \E c \in Calls, err \in Responses : PutRecordReturn(c, err)

Spec == Init /\ [][Next]_vars

\* FairSpec: the send path under Go's scheduler, which runs every goroutine
\* that can run: a spawned `go h.fire(entry)` does reach its PutRecord call.
FairSpec == Spec /\ \A c \in Calls : WF_vars(GoFire(c))

\* SpecPayload: what is submitted.  Hooks of every construction and name,
\* every setting of the newline, ignore and filter configuration, and one
\* synchronous Fire of any entry.
PayloadOptions == {WithAddNewLine(r) : r \in {0} \cup Hooks}

NextPayload ==
  \/ \E h \in Hooks, name \in Names : New(h, name)
  \/ \E h \in Hooks, name \in Names : NewWithAWSConfig(h, name)
  \/ \E h \in Hooks, name \in Names, opts \in SeqsUpTo(PayloadOptions, MaxOpts) :
       NewFirehoseHook(h, name, opts)
  \/ \E h \in Hooks, name \in Names : HookLiteral(h, name, FALSE, FALSE, 0)
  \/ \E h \in Hooks, b \in BOOLEAN : AddNewLine(h, b)
  \/ \E h \in Hooks : AddIgnore(h, "detail")
  \/ \E h \in Hooks : AddFilter(h, "detail")
  \/ \E h \in Hooks, entry \in Entries : Fire(1, h, entry)
  \/ \E err \in Responses : PutRecordReturn(1, err)

SpecPayload == Init /\ [][NextPayload]_vars

\* SpecLevels: the enabled levels.  Hooks of every construction, and every
\* level set given to SetLevels, to the levels field or to WithLevels.
NextLevels ==
  \/ \E h \in Hooks : New(h, "default_stream")
  \/ \E h \in Hooks : NewWithAWSConfig(h, "default_stream")
  \/ \E h \in Hooks, opts \in SeqsUpTo({WithLevels(l) : l \in LevelSets}, MaxOpts) :
       NewFirehoseHook(h, "default_stream", opts)
  \/ \E h \in Hooks : ZeroValue(h)
  \/ \E h \in Hooks, levels \in LevelSets : SetLevels(h, levels)
  \/ \E h \in Hooks, levels \in LevelSets : AssignLevels(h, levels)

SpecLevels == Init /\ [][NextLevels]_vars

(***************************************************************************)
(* Claims.                                                                 *)
(***************************************************************************)
Started(c) == call[c].puts > 0
HookOf(c) == call[c].hook
StreamNameOf(c) == call[c].entry.Data["stream_name"]

\* C1: on every hook, Levels() returns exactly the level set last
\* configured on that hook (by SetLevels, by assigning the field, by
\* WithLevels, or the default of its constructor; nil for a zero-value
\* hook), whatever was configured on the other hook.
C1_LevelsReturnsConfigured ==
  \A h \in Hooks : Alive(h) => Levels(h) = wantLevels[h]

\* C1 witness: a constructed hook cleared back to nil by SetLevels(nil)
\* beside a hook that still returns the non-nil set it was given.
C1_Witness ==
  \E h, g \in Hooks :
    /\ h # g /\ Alive(h) /\ Alive(g)
    /\ ctor[h].by = "New" /\ Levels(h) = NilLevels
    /\ Levels(g) = LevelSlice(<<"warn", "debug">>)

\* C2: in v2 the stream a record is submitted to is the stream_name field
\* when that is a string (the empty string included), and the hook's
\* default otherwise (a number, nil, or no field), empty when the default is.
C2_StreamNameResolution ==
  \A c \in Calls :
    (variant = "v2" /\ Started(c)) =>
      call[c].input.DeliveryStreamName =
        ( IF StreamNameOf(c).kind = "string" /\ StreamNameOf(c).str # ""
          THEN StreamNameOf(c).str
          ELSE IF StreamNameOf(c).kind = "string" THEN ""
          ELSE hook[HookOf(c)].defaultStreamName )

\* C2 witness: an empty stream_name on a hook with a non-empty default was
\* resolved to the empty string.
C2_Witness ==
  \E c \in Calls :
    /\ variant = "v2" /\ Started(c)
    /\ StreamNameOf(c) = StringValue("")
    /\ hook[HookOf(c)].defaultStreamName = "default_stream"
    /\ call[c].input.DeliveryStreamName = ""

\* C3: a synchronous Fire has returned exactly when its PutRecord call has
\* returned, after exactly one PutRecord call, and it returns what that
\* call returned: nil or the remote error.
C3_SyncReturnsSubmitResult ==
  \A c \in Calls :
    (call[c].pc # "idle" /\ ~call[c].async) =>
      /\ call[c].returned <=> call[c].pc = "done"
      /\ call[c].returned => (call[c].ret = call[c].resp /\ call[c].puts = 1)

\* C3 witness: a synchronous Fire returned the remote error.
C3_Witness ==
  \E c \in Calls :
    /\ ~call[c].async /\ call[c].pc = "done"
    /\ call[c].resp = ErrRemote /\ call[c].ret = ErrRemote

\* C4: an asynchronous Fire has returned nil from the moment it was called:
\* before the goroutine has called PutRecord, while PutRecord runs, and
\* after it succeeded or failed.
C4_AsyncReturnsNil ==
  \A c \in Calls :
    (call[c].pc # "idle" /\ call[c].async) =>
      (call[c].returned /\ call[c].ret = NoErr)

\* C4 witness: the submission of an asynchronous Fire failed, and a second
\* asynchronous Fire returned while its goroutine has not submitted yet.
C4_Witness ==
  \E c, d \in Calls :
    /\ call[c].async /\ call[c].pc = "done" /\ call[c].resp = ErrRemote
    /\ call[c].ret = NoErr
    /\ call[d].async /\ call[d].pc = "spawned" /\ call[d].returned

\* The sendQueue channel of hook h: what it holds, and what it can hold (a
\* nil channel, which is what every constructor leaves, can hold nothing).
\* Only v3 declares the field.
QueueLen(h) == Len(hook[h].sendQueue)
QueueFull(h) == variant = "v3" /\ QueueLen(h) = hook[h].sendQueueCap
InQueue(c, hs) == \E i \in DOMAIN hs[call[c].hook].sendQueue :
                    hs[call[c].hook].sendQueue[i] = c

\* Fire returns to the caller of call c in this step.
FireReturns(c) == ~call[c].returned /\ call'[c].returned

Pending(h) ==
  QueueLen(h) + Cardinality({c \in Calls : call[c].hook = h /\ call[c].pc = "spawned"})

\* C6: on every hook the records accepted but not yet handed to the remote
\* API number at most the capacity fixed when the hook was constructed.
C6_BoundedPending ==
  \A h \in Hooks : Alive(h) => Pending(h) <= hook[h].sendQueueCap

\* C7: a record without a stream_name string, fired through a hook that
\* New, NewWithAWSConfig or NewFirehoseHook constructed with name N, is
\* submitted to stream N.
C7_ConstructorNameIsDefault ==
  \A c \in Calls :
    ( /\ Started(c)
      /\ ctor[HookOf(c)].by \in {"New", "NewWithAWSConfig", "NewFirehoseHook"}
      /\ StreamNameOf(c).kind # "string" ) =>
      call[c].input.DeliveryStreamName = ctor[HookOf(c)].name

\* C8: a successfully formatted record is submitted as the formatted bytes
\* followed by one newline when append-newline was enabled on the hook it
\* is fired through, and as the formatted bytes alone when it was not.
C8_NewlinePerHook ==
  \A c \in Calls :
    (Started(c) /\ ~call[c].formatted.isNil) =>
      call[c].input.Data =
        ( IF call[c].nl
          THEN Bytes(call[c].formatted.bytes \o <<"\n">>)
          ELSE call[c].formatted )

\* C9: a record whose formatting failed is submitted with a nil payload,
\* also on a hook that appends newlines, and what Fire returns for it is
\* what the remote call returned, never the formatting error.
C9_FormatFailureGivesNilPayload ==
  \A c \in Calls :
    (Started(c) /\ call[c].formatted.isNil) =>
      /\ call[c].input.Data = NilBytes
      /\ call[c].returned => call[c].ret = call[c].resp

\* C9 witness: a record with a value that cannot be serialised went through
\* a hook with append-newline on, and Fire returned nil.
C9_Witness ==
  \E c \in Calls :
    /\ Started(c) /\ call[c].formatted.isNil
    /\ call[c].entry.Data["detail"] = ChanValue
    /\ hook[HookOf(c)].addNewline
    /\ call[c].returned /\ call[c].ret = NoErr

\* C10: PutRecord is called at most once for a record, exactly once by the
\* time a synchronous Fire returns and once the call is in flight or done,
\* and, under fair scheduling, a record an asynchronous Fire handed to a
\* goroutine is eventually submitted exactly once.
C10_SubmittedExactlyOnce ==
  /\ [](\A c \in Calls :
          /\ call[c].puts <= 1
          /\ call[c].pc \in {"inflight", "done"} => call[c].puts = 1
          /\ (~call[c].async /\ call[c].returned) => call[c].puts = 1)
  /\ \A c \in Calls : (call[c].pc = "spawned") ~> (call[c].puts = 1)

\* C10 witness: two records fired concurrently, one synchronously and one
\* asynchronously, have both been submitted once.
C10_Witness ==
  \E c, d \in Calls :
    /\ call[c].async /\ call[c].pc = "done" /\ call[c].puts = 1
    /\ ~call[d].async /\ call[d].pc = "inflight" /\ call[d].puts = 1

=============================================================================
